---------------------------- MODULE Spec2Model ----------------------------
(***************************************************************************)
(* Layer 2 complaint priority classification                               *)
(* (src/app/backend/layer2/routes.py): the process-wide session store and  *)
(* classification cache, the request handlers, and the background runs     *)
(* process_complaints / reprocess_with_feedback, interleaved at the        *)
(* points where the code awaits; and the dataset sessions of layer 1       *)
(* (src/layer1/backend/main.py) with their generate / regenerate requests. *)
(*                                                                         *)
(* Atomicity.  Everything runs on one asyncio event loop.  A request       *)
(* handler contains no await that another handler's state depends on, so   *)
(* each handler is one step.  A background run is added by                 *)
(* background_tasks.add_task and starts only after the response has been   *)
(* sent, so other requests can be served in between.  Inside a run the     *)
(* only suspension point is `await asyncio.sleep(0.1)` at the end of each  *)
(* loop iteration (generate_content is a blocking call), so a run advances *)
(* in segments: [reset + iteration 0], [iteration i+1], ...,               *)
(* [loop exit + completed].                                                *)
(***************************************************************************)
EXTENDS Integers, Sequences, FiniteSets, TLC

\* ------------------------------------------------------------------ bounds
\* Spec: one session, every kind of upstream answer.
MaxSessions == 1      \* uploads accepted over the life of the process
MaxTasks == 2         \* background runs added over the life of the process
MaxLen == 2           \* longest uploaded complaint list
\* SpecShare: sessions that share the cache.
ShareSessions == 2
ShareTasks == 2
ShareLen == 2
\* SpecApi: the requests and their responses.
ApiSessions == 1
ApiTasks == 2
ApiLen == 2
\* SpecFb: feedback runs next to the runs of another session.
FbSessions == 2
FbTasks == 3
FbLen == 1
\* SpecLive: one session, its runs and its requests under fair scheduling.
LiveSessions == 1
LiveTasks == 2
LiveLen == 2
\* SpecClock: the timestamps of the runs of one session.
ClockSessions == 1
ClockTasks == 2
ClockMax == 3         \* latest time the clock shows
\* SpecL1: the layer 1 dataset sessions.
L1Sessions == 1       \* sessions created over the life of the process
L1Regens == 3         \* highest value of current_iteration
L1Datasets == 3       \* longest dataset_iterations list

\* ------------------------------------------------------- uploaded material
Texts == <<"c1", "c2">>

\* The complaint lists an upload can attach: the first n lines of a file
\* c1, c2, c1, ... and the file of n identical lines c1.
FeedLine(j) == Texts[((j - 1) % Len(Texts)) + 1]

ComplaintLists ==
    {[j \in 1..n |-> FeedLine(j)] : n \in 0..MaxLen} \cup
    {[j \in 1..n |-> Texts[1]] : n \in 1..MaxLen}

ShareLists == {[j \in 1..n |-> FeedLine(j)] : n \in 1..ShareLen}

\* A risk-table row is the dict csv.DictReader yields: its <<column, value>>
\* pairs in column order.
RowA == << <<"Risk Code", "R1">>, <<"Description", "late">> >>
RowAperm == << <<"Description", "late">>, <<"Risk Code", "R1">> >>
RowB == << <<"Risk Code", "R1">>, <<"Description", "lost">> >>
RowC == << <<"Risk Code", "R2">>, <<"Description", "late">> >>

TEmpty == << >>
TA == <<RowA>>
TAperm == <<RowAperm>>
TB == <<RowB>>
TC == <<RowC>>

RiskTables == {TEmpty, TA}

ShareTables == {TA, TAperm, TB, TC}

\* Python equality of two dicts / of two lists of dicts (column order is
\* irrelevant, row order is not).
DictEq(r1, r2) == {r1[i] : i \in DOMAIN r1} = {r2[i] : i \in DOMAIN r2}

TableEq(t1, t2) ==
    /\ Len(t1) = Len(t2)
    /\ \A i \in DOMAIN t1 : DictEq(t1[i], t2[i])

\* ---------------------------------------------------------- fingerprinting
\* Alphabetical rank of the column names (json.dumps(sort_keys=True)).
KeyRank(k) ==
    CASE k = "Description" -> 1
      [] k = "Impact Score" -> 2
      [] k = "Risk Code" -> 3

RECURSIVE SortPairs(_)
SortPairs(ps) ==
    IF ps = {} THEN << >>
    ELSE LET p == CHOOSE x \in ps : \A y \in ps : KeyRank(x[1]) <= KeyRank(y[1])
         IN  <<p>> \o SortPairs(ps \ {p})

\* json.dumps(self.risk_table, sort_keys=True): rows in list order, each row's
\* pairs in key order.
json_dumps(table) ==
    [r \in DOMAIN table |-> SortPairs({table[r][i] : i \in DOMAIN table[r]})]

\* hashlib.md5(...).hexdigest(), taken as collision-free: the digest stands
\* for the string it was computed from.  The string is complaint, "|" and
\* the dump; a dump starts with "[" and quotes inside its strings are
\* escaped, so the string determines both parts.
md5(combined) == <<"md5", combined>>

KeyIgnoringTable(risk_table, complaint) == md5(<<complaint, "|", << >> >>)

get_cache_key(risk_table, complaint) ==
    md5(<<complaint, "|", json_dumps(risk_table)>>)

\* ------------------------------------------------------------ the upstream
\* A JSON value of a score field: a number, a non-numeric string, or null.
IntV(n) == [t |-> "int", v |-> n]
StrV == [t |-> "str", v |-> 0]
NullV == [t |-> "null", v |-> 0]

ScoreKeys == <<"impact_score", "urgency_score", "frequency_score", "controllability_score">>

FullObject(code, a, b, c, d) ==
    [risk_code |-> code, risk_description |-> "described",
     impact_score |-> a, urgency_score |-> b,
     frequency_score |-> c, controllability_score |-> d]

\* What self.model.generate_content(prompt) can do: raise, or return text
\* that is not JSON, JSON that is no object, or a JSON object.
Responses ==
    [raise |-> [kind |-> "raise", json |-> "none", obj |-> << >>],
     malformed |-> [kind |-> "text", json |-> "malformed", obj |-> << >>],
     list |-> [kind |-> "text", json |-> "list", obj |-> << >>],
     good |-> [kind |-> "text", json |-> "object",
               obj |-> FullObject("R1", IntV(9), IntV(-1), IntV(3), IntV(3))],
     strscore |-> [kind |-> "text", json |-> "object",
               obj |-> FullObject("R1", IntV(4), StrV, IntV(3), IntV(3))],
     nullscore |-> [kind |-> "text", json |-> "object",
               obj |-> FullObject("R1", IntV(4), IntV(4), NullV, IntV(3))],
     noscore |-> [kind |-> "text", json |-> "object",
               obj |-> [risk_code |-> "R1", risk_description |-> "described",
                        urgency_score |-> IntV(4), frequency_score |-> IntV(3),
                        controllability_score |-> IntV(1)]],
     nocode |-> [kind |-> "text", json |-> "object",
               obj |-> [risk_description |-> "described",
                        impact_score |-> IntV(2), urgency_score |-> IntV(2),
                        frequency_score |-> IntV(2), controllability_score |-> IntV(2)]]]

RespNames == DOMAIN Responses

ShareResps == {"raise", "malformed", "good", "nocode"}

\* ------------------------------------------------------ classifier adapter
FALLBACK ==
    [risk_code |-> "ER-03", risk_description |-> "Unable to classify",
     impact_score |-> 3, urgency_score |-> 3,
     frequency_score |-> 3, controllability_score |-> 3]

Max(a, b) == IF a >= b THEN a ELSE b
Min(a, b) == IF a <= b THEN a ELSE b

NoClamp(n) == n

\* max(1, min(5, n))
Clamp(n) == Max(1, Min(5, n))

\* result.get(key, 3)
DictGet(obj, key) == IF key \in DOMAIN obj THEN obj[key] ELSE IntV(3)

\* The exception int(result.get(key, 3)) raises, "none" if it returns.
IntExc(obj, key) ==
    LET v == DictGet(obj, key)
    IN  CASE v.t = "int" -> "none"
          [] v.t = "str" -> "ValueError"
          [] v.t = "null" -> "TypeError"

\* The first exception raised by the four coercions, in statement order.
RECURSIVE FirstExc(_, _)
FirstExc(obj, j) ==
    IF j > Len(ScoreKeys) THEN "none"
    ELSE IF IntExc(obj, ScoreKeys[j]) # "none" THEN IntExc(obj, ScoreKeys[j])
    ELSE FirstExc(obj, j + 1)

Clamped(obj) ==
    [impact_score |-> Clamp(DictGet(obj, "impact_score").v),
     urgency_score |-> Clamp(DictGet(obj, "urgency_score").v),
     frequency_score |-> Clamp(DictGet(obj, "frequency_score").v),
     controllability_score |-> Clamp(DictGet(obj, "controllability_score").v)] @@ obj

\* The try block shared by classify_complaint and reprocess_with_feedback:
\* call the model, parse, coerce and clamp.  exc is the exception that leaves
\* the block ("none": the block produced `result`); parsed tells whether
\* `result` is the parsed object rather than the fallback of the except clause.
CallAndParse(resp) ==
    IF resp.kind = "raise"
    THEN [exc |-> "UpstreamError", parsed |-> FALSE, result |-> FALLBACK]
    ELSE IF resp.json = "malformed"
    THEN [exc |-> "none", parsed |-> FALSE, result |-> FALLBACK]
    ELSE IF resp.json = "list"
    THEN [exc |-> "AttributeError", parsed |-> FALSE, result |-> FALLBACK]
    ELSE LET e == FirstExc(resp.obj, 1)
         IN  CASE e = "none" -> [exc |-> "none", parsed |-> TRUE, result |-> Clamped(resp.obj)]
               [] e = "ValueError" -> [exc |-> "none", parsed |-> FALSE, result |-> FALLBACK]
               [] OTHER -> [exc |-> e, parsed |-> FALSE, result |-> FALLBACK]

\* --------------------------------------------------------- scoring engine
RoundDown2(num, den) == (100 * num) \div den

\* round(num / den, 2) in hundredths, ties to even.
Round2(num, den) ==
    LET q == (100 * num) \div den
        r == (100 * num) % den
    IN  IF 2 * r < den THEN q
        ELSE IF 2 * r > den THEN q + 1
        ELSE IF q % 2 = 0 THEN q ELSE q + 1

LevelStrict(score) ==
    IF score > 6000 THEN "P1 - Critical"
    ELSE IF score > 4000 THEN "P2 - High"
    ELSE IF score > 2000 THEN "P3 - Medium"
    ELSE "P4 - Low"

LevelOf(score) ==
    IF score >= 6000 THEN "P1 - Critical"
    ELSE IF score >= 4000 THEN "P2 - High"
    ELSE IF score >= 2000 THEN "P3 - Medium"
    ELSE "P4 - Low"

\* <<priority_score in hundredths, priority_level>>
calculate_priority(impact, urgency, frequency, controllability) ==
    LET priority_score == Round2(impact * urgency * frequency, controllability)
    IN  <<priority_score, LevelOf(priority_score)>>

\* ------------------------------------------------------------------ state
VARIABLES
    sessions,              \* ids present in the `sessions` dict
    objs,                  \* the ProcessingSession objects ever stored, by id
    tasks,                 \* the background runs added so far
    classification_cache,  \* the `classification_cache` dict
    classified,            \* history: how each fingerprint was last classified by
                           \* classify_complaint since its last removal from the cache
    cache_table,           \* history: the risk table of the session that stored an entry
    fn_in,                 \* argument of the pure function under test
    fn_out,                \* its result
    now,                   \* datetime.now(), in whole ticks
    reply,                 \* the response to the request handled by the latest step
    l1_sessions            \* layer 1: session id -> Session object

svars == <<sessions, objs, tasks, classification_cache, classified, cache_table>>
fvars == <<fn_in, fn_out>>
vars == <<sessions, objs, tasks, classification_cache, classified, cache_table, fn_in, fn_out,
          now, reply, l1_sessions>>

EmptyMap == [x \in {} |-> 0]

\* The response of a request handler: the HTTP status code, the detail of an
\* HTTPException, the rows, progress and iteration of the body, and the
\* feedback text of the request.  NoReply stands after a step that handled
\* no request.
NoProgress ==
    [status |-> "none", total_rows |-> 0, processed_rows |-> 0, elapsed_seconds |-> 0,
     error_message |-> "none"]

NoStats == [cached_classifications |-> 0, active_sessions |-> 0]

NoReply ==
    [op |-> "none", session_id |-> 0, status_code |-> 0, detail |-> "none",
     results |-> << >>, progress |-> NoProgress, feedback |-> << >>, iteration |-> 0,
     stats |-> NoStats]

Without(f, k) == [x \in (DOMAIN f) \ {k} |-> f[x]]

\* start_time = None, end_time = None.
NoTime == -1

\* ProcessingSession.__init__ followed by the assignments of upload_files.
NewSessionCounted(complaints, risk_table) ==
    [complaints |-> complaints,
     risk_table |-> risk_table,
     results |-> << >>,
     status |-> "pending",
     total_rows |-> Len(complaints),
     processed_rows |-> Len(complaints),
     start_time |-> NoTime,
     end_time |-> NoTime,
     error_message |-> "none"]

NewSession(complaints, risk_table) ==
    [complaints |-> complaints,
     risk_table |-> risk_table,
     results |-> << >>,
     status |-> "pending",
     total_rows |-> Len(complaints),
     processed_rows |-> 0,
     start_time |-> NoTime,
     end_time |-> NoTime,
     error_message |-> "none"]

\* A slot of the background-task list.  i counts the loop iterations the run
\* has finished, calls the times it invoked the model, resp names the
\* response consumed in its latest segment ("none": no call was made), solo
\* whether no other run of the session has been pending or running since this
\* one was added, feedback the argument of reprocess_with_feedback, prompt_fb
\* the feedback text inside the prompt of the run's latest call.
NoTask ==
    [kind |-> "unused", sid |-> 0, pc |-> "unused", i |-> 0, calls |-> 0,
     resp |-> "none", solo |-> TRUE, feedback |-> << >>, prompt_fb |-> << >>]

UsedTasks == {t \in DOMAIN tasks : tasks[t].kind # "unused"}

InFlightQueuedOnly(t) == tasks[t].pc = "queued"

InFlightOrFailed(t) == tasks[t].pc \in {"queued", "sleep", "failed"}

InFlight(t) == tasks[t].pc \in {"queued", "sleep"}

FreeSlot == Cardinality(UsedTasks) + 1

\* background_tasks.add_task(...): the run is appended to the task list.
AddTask(kind, sid, feedback) ==
    LET overlap == \E u \in UsedTasks : tasks[u].sid = sid /\ InFlight(u)
    IN  [u \in DOMAIN tasks |->
            IF u = FreeSlot
            THEN [kind |-> kind, sid |-> sid, pc |-> "queued", i |-> 0, calls |-> 0,
                  resp |-> "none", solo |-> ~overlap, feedback |-> feedback,
                  prompt_fb |-> << >>]
            ELSE IF tasks[u].sid = sid /\ InFlight(u)
            THEN [tasks[u] EXCEPT !.solo = FALSE]
            ELSE tasks[u]]

\* str.strip() == "" for the feedback texts, given as sequences of characters.
Whitespace == {" ", "\t", "\n"}

RECURSIVE LStrip(_)
LStrip(s) == IF s # << >> /\ Head(s) \in Whitespace THEN LStrip(Tail(s)) ELSE s

RECURSIVE RStrip(_)
RStrip(s) ==
    IF s # << >> /\ s[Len(s)] \in Whitespace THEN RStrip(SubSeq(s, 1, Len(s) - 1)) ELSE s

Strip(s) == RStrip(LStrip(s))

Feedbacks == {<< >>, <<" ", "\t">>, <<"R", "2">>}

\* --------------------------------------------------------------- the runs
\* classify_complaint: the cache lookup, else the call, and the store of a
\* parsed result.
ClassifyNoLookup(cache, risk_table, complaint, resp) ==
    LET Body(key, p) ==
            [exc |-> p.exc, result |-> p.result, invoked |-> TRUE, parsed |-> p.parsed,
             prompt_fb |-> << >>,
             cache |-> IF p.exc = "none" /\ p.parsed
                       THEN (key :> p.result) @@ cache ELSE cache]
    IN  Body(get_cache_key(risk_table, complaint), CallAndParse(resp))

ClassifyCachingFallback(cache, risk_table, complaint, resp) ==
    LET Body(key, p) ==
            IF key \in DOMAIN cache
            THEN [exc |-> "none", result |-> cache[key], invoked |-> FALSE,
                  parsed |-> FALSE, prompt_fb |-> << >>, cache |-> cache]
            ELSE [exc |-> p.exc, result |-> p.result, invoked |-> TRUE,
                  parsed |-> p.parsed, prompt_fb |-> << >>,
                  cache |-> IF p.exc = "none"
                            THEN (key :> p.result) @@ cache ELSE cache]
    IN  Body(get_cache_key(risk_table, complaint), CallAndParse(resp))

ClassifyEvicting(cache, risk_table, complaint, resp) ==
    LET Body(key, p) ==
            IF key \in DOMAIN cache
            THEN [exc |-> "none", result |-> cache[key], invoked |-> FALSE,
                  parsed |-> FALSE, prompt_fb |-> << >>, cache |-> Without(cache, key)]
            ELSE [exc |-> p.exc, result |-> p.result, invoked |-> TRUE,
                  parsed |-> p.parsed, prompt_fb |-> << >>,
                  cache |-> IF p.exc = "none" /\ p.parsed
                            THEN (key :> p.result) @@ cache ELSE cache]
    IN  Body(get_cache_key(risk_table, complaint), CallAndParse(resp))

classify_complaint(cache, risk_table, complaint, resp) ==
    LET Body(key, p) ==
            IF key \in DOMAIN cache
            THEN [exc |-> "none", result |-> cache[key], invoked |-> FALSE,
                  parsed |-> FALSE, prompt_fb |-> << >>, cache |-> cache]
            ELSE [exc |-> p.exc, result |-> p.result, invoked |-> TRUE,
                  parsed |-> p.parsed, prompt_fb |-> << >>,
                  cache |-> IF p.exc = "none" /\ p.parsed
                            THEN (key :> p.result) @@ cache ELSE cache]
    IN  Body(get_cache_key(risk_table, complaint), CallAndParse(resp))

FeedbackClearsAll(cache, risk_table, complaint, feedback, resp) ==
    LET Body(p) ==
            [exc |-> p.exc, result |-> p.result, invoked |-> TRUE, parsed |-> p.parsed,
             prompt_fb |-> feedback,
             cache |-> EmptyMap]
    IN  Body(CallAndParse(resp))

FeedbackFromCache(cache, risk_table, complaint, feedback, resp) ==
    classify_complaint(cache, risk_table, complaint, resp)

\* The body of reprocess_with_feedback's loop up to the inner try: drop the
\* complaint's cache entry, call with the feedback appended; nothing is stored.
feedback_classify(cache, risk_table, complaint, feedback, resp) ==
    LET Body(key, p) ==
            [exc |-> p.exc, result |-> p.result, invoked |-> TRUE, parsed |-> p.parsed,
             prompt_fb |-> feedback,
             cache |-> Without(cache, key)]
    IN  Body(get_cache_key(risk_table, complaint), CallAndParse(resp))

\* The result row built from a classification (a dict subscript of a missing
\* key raises KeyError).
RowExc(classification) ==
    IF {"risk_code", "risk_description"} \subseteq DOMAIN classification
    THEN "none" ELSE "KeyError"

BuildRowFixedPriority(complaint, classification) ==
    [complaint |-> complaint,
     risk_code |-> classification.risk_code,
     risk_description |-> classification.risk_description,
     impact_score |-> classification.impact_score,
     urgency_score |-> classification.urgency_score,
     frequency_score |-> classification.frequency_score,
     controllability_score |-> classification.controllability_score,
     priority_score |-> FALLBACK.impact_score * 100,
     priority_level |-> "Low"]

BuildRow(complaint, classification) ==
    LET p == calculate_priority(classification.impact_score,
                                classification.urgency_score,
                                classification.frequency_score,
                                classification.controllability_score)
    IN  [complaint |-> complaint,
         risk_code |-> classification.risk_code,
         risk_description |-> classification.risk_description,
         impact_score |-> classification.impact_score,
         urgency_score |-> classification.urgency_score,
         frequency_score |-> classification.frequency_score,
         controllability_score |-> classification.controllability_score,
         priority_score |-> p[1],
         priority_level |-> p[2]]

\* One pass of the loop body for the complaint at position j (1-based) of
\* session object o, and the except clause if it raises.
Iteration(o, cache, kind, feedback, j, resp) ==
    LET complaint == o.complaints[j]
        Body(c, exc) ==
            [exc |-> exc,
             call_exc |-> c.exc,
             invoked |-> c.invoked,
             parsed |-> c.parsed,
             prompt_fb |-> c.prompt_fb,
             cache |-> c.cache,
             obj |-> IF exc = "none"
                     THEN [o EXCEPT !.results = Append(@, BuildRow(complaint, c.result)),
                                    !.processed_rows = j]
                     ELSE [o EXCEPT !.status = "error", !.error_message = exc,
                                    !.end_time = now]]
        Raised(c) == Body(c, IF c.exc # "none" THEN c.exc ELSE RowExc(c.result))
    IN  Raised(IF kind = "process"
               THEN classify_complaint(cache, o.risk_table, complaint, resp)
               ELSE feedback_classify(cache, o.risk_table, complaint, feedback, resp))

\* The statements before the loop.
RunStart(o) ==
    [o EXCEPT !.status = "processing", !.start_time = now, !.results = << >>]

\* The history variables after a segment of task t that ran Iteration it on
\* fingerprint key.
ClassifiedAfter(kind, key, it) ==
    IF kind = "reprocess" THEN Without(classified, key)
    ELSE IF it.invoked /\ it.call_exc = "none"
         THEN (key :> (IF it.parsed THEN "parsed" ELSE "fallback")) @@ classified
         ELSE classified

CacheTableAfter(kind, key, risk_table, it) ==
    IF kind = "reprocess" THEN Without(cache_table, key)
    ELSE IF it.invoked /\ it.call_exc = "none" /\ it.parsed
         THEN (key :> risk_table) @@ cache_table
         ELSE cache_table

\* One segment of background run t between two suspension points; r names
\* what the model answers if the segment calls it.
Segment(t, r) ==
    LET task == tasks[t]
        o0 == objs[task.sid]
        o1 == IF task.pc = "queued" THEN RunStart(o0) ELSE o0
        j == task.i + 1
    IN  IF j > Len(o1.complaints)
        THEN /\ objs' = [objs EXCEPT ![task.sid] =
                               [o1 EXCEPT !.status = "completed", !.end_time = now]]
             /\ tasks' = [tasks EXCEPT ![t] = [task EXCEPT !.pc = "done", !.resp = "none"]]
             /\ UNCHANGED <<classification_cache, classified, cache_table>>
        ELSE \E it \in {Iteration(o1, classification_cache, task.kind, task.feedback, j,
                                    Responses[r])},
                key \in {get_cache_key(o1.risk_table, o1.complaints[j])} :
                 /\ objs' = [objs EXCEPT ![task.sid] = it.obj]
                 /\ tasks' = [tasks EXCEPT ![t] =
                        [task EXCEPT !.pc = IF it.exc = "none" THEN "sleep" ELSE "failed",
                                     !.i = IF it.exc = "none" THEN j ELSE @,
                                     !.calls = IF it.invoked THEN @ + 1 ELSE @,
                                     !.resp = IF it.invoked THEN r ELSE "none",
                                     !.prompt_fb = IF it.invoked THEN it.prompt_fb ELSE @]]
                 /\ classification_cache' = it.cache
                 /\ classified' = ClassifiedAfter(task.kind, key, it)
                 /\ cache_table' = CacheTableAfter(task.kind, key, o1.risk_table, it)

ProcessOnlyStored(t, resps) ==
    /\ tasks[t].kind = "process"
    /\ InFlight(t)
    /\ tasks[t].sid \in sessions
    /\ \E r \in resps : Segment(t, r)
    /\ UNCHANGED <<sessions, fn_in, fn_out, now, l1_sessions>>

process_complaints(t, resps) ==
    /\ tasks[t].kind = "process"
    /\ InFlight(t)
    /\ \E r \in resps : Segment(t, r)
    /\ UNCHANGED <<sessions, fn_in, fn_out, now, l1_sessions>>

reprocess_with_feedback(t, resps) ==
    /\ tasks[t].kind = "reprocess"
    /\ InFlight(t)
    /\ \E r \in resps : Segment(t, r)
    /\ UNCHANGED <<sessions, fn_in, fn_out, now, l1_sessions>>

\* ----------------------------------------------------------- the handlers
upload_files(max_sessions, lists, tables) ==
    /\ Cardinality(DOMAIN objs) < max_sessions
    /\ \E complaints \in lists, risk_table \in tables :
         LET session_id == Cardinality(DOMAIN objs) + 1
         IN  /\ objs' = (session_id :> NewSession(complaints, risk_table)) @@ objs
             /\ sessions' = sessions \cup {session_id}
    /\ UNCHANGED <<tasks, classification_cache, classified, cache_table, fn_in, fn_out, now, l1_sessions>>

\* The uploaded file whose decoding or parsing raises.
BadFiles == {"complaints_file", "risk_table_file"}

UploadStoresBeforeRiskTable(bad) ==
    /\ bad \in BadFiles
    /\ IF bad = "risk_table_file"
       THEN LET session_id == Cardinality(DOMAIN objs) + 1
            IN  /\ objs' = (session_id :> NewSession(<<Texts[1]>>, << >>)) @@ objs
                /\ sessions' = sessions \cup {session_id}
       ELSE UNCHANGED <<sessions, objs>>
    /\ UNCHANGED <<tasks, classification_cache, classified, cache_table, fn_in, fn_out, now, l1_sessions>>

\* upload_files when reading one of the files raises: the ProcessingSession
\* built so far is a local object, the store comes after both files.
upload_files_raises(bad) ==
    /\ bad \in BadFiles
    /\ UNCHANGED <<sessions, objs, tasks, classification_cache, classified, cache_table,
                   fn_in, fn_out, now, l1_sessions>>

StartAllowedUnchecked(session) == session.status # "processing"

\* The checks of start_processing that do not raise HTTPException.
StartAllowed(session) ==
    /\ session.status # "processing"
    /\ session.complaints # << >>
    /\ session.risk_table # << >>

StartSetsProcessing(session_id, max_tasks) ==
    /\ session_id \in sessions
    /\ StartAllowed(objs[session_id])
    /\ FreeSlot <= max_tasks
    /\ tasks' = AddTask("process", session_id, << >>)
    /\ objs' = [objs EXCEPT ![session_id].status = "processing"]
    /\ UNCHANGED <<sessions, classification_cache, classified, cache_table, fn_in, fn_out, now, l1_sessions>>

start_processing(session_id, max_tasks) ==
    /\ session_id \in sessions
    /\ StartAllowed(objs[session_id])
    /\ FreeSlot <= max_tasks
    /\ tasks' = AddTask("process", session_id, << >>)
    /\ UNCHANGED <<sessions, objs, classification_cache, classified, cache_table, fn_in, fn_out, now, l1_sessions>>

RegenerateAllowedUnstripped(session, feedback) ==
    /\ session.results # << >>
    /\ feedback # << >>

\* The checks of regenerate_results that do not raise HTTPException.
RegenerateAllowed(session, feedback) ==
    /\ session.results # << >>
    /\ Strip(feedback) # << >>

regenerate_results(session_id, max_tasks) ==
    /\ session_id \in sessions
    /\ FreeSlot <= max_tasks
    /\ \E feedback \in Feedbacks :
         /\ RegenerateAllowed(objs[session_id], feedback)
         /\ tasks' = AddTask("reprocess", session_id, feedback)
    /\ UNCHANGED <<sessions, objs, classification_cache, classified, cache_table, fn_in, fn_out, now, l1_sessions>>

DeleteKeepsSession(session_id) ==
    /\ session_id \in sessions
    /\ UNCHANGED <<sessions, objs, tasks, classification_cache, classified, cache_table,
                   fn_in, fn_out, now, l1_sessions>>

delete_session(session_id) ==
    /\ session_id \in sessions
    /\ sessions' = sessions \ {session_id}
    /\ UNCHANGED <<objs, tasks, classification_cache, classified, cache_table, fn_in, fn_out, now, l1_sessions>>

clear_cache ==
    /\ classification_cache' = EmptyMap
    /\ classified' = EmptyMap
    /\ cache_table' = EmptyMap
    /\ UNCHANGED <<sessions, objs, tasks, fn_in, fn_out, now, l1_sessions>>

\* ------------------------------------------- the handlers as HTTP requests
\* raise HTTPException(status_code, detail), and a handler's return.
HTTPException(op, session_id, status_code, detail) ==
    [NoReply EXCEPT !.op = op, !.session_id = session_id,
                    !.status_code = status_code, !.detail = detail]

Returned(op, session_id) ==
    [NoReply EXCEPT !.op = op, !.session_id = session_id, !.status_code = 200]

NotFound(op, session_id) == HTTPException(op, session_id, 404, "Session not found")

\* ProcessingSession.get_progress.
get_progress(session) ==
    LET end == IF session.end_time # NoTime THEN session.end_time ELSE now
        elapsed == IF session.start_time # NoTime THEN end - session.start_time ELSE 0
    IN  [status |-> session.status,
         total_rows |-> session.total_rows,
         processed_rows |-> session.processed_rows,
         elapsed_seconds |-> elapsed,
         error_message |-> session.error_message]

\* The detail of the first HTTPException start_processing raises for a stored
\* session.
StartDetail(session) ==
    IF session.status = "processing" THEN "Processing already in progress"
    ELSE IF session.complaints = << >> THEN "No complaints to process"
    ELSE IF session.risk_table = << >> THEN "No risk table loaded"
    ELSE "none"

\* The same for regenerate_results.
RegenerateDetail(session, feedback) ==
    IF session.results = << >> THEN "No results to regenerate"
    ELSE IF Strip(feedback) = << >> THEN "Please provide feedback"
    ELSE "none"

\* A request that only answers.
Answer(r) ==
    /\ reply' = r
    /\ UNCHANGED <<sessions, objs, tasks, classification_cache, classified, cache_table,
                   fn_in, fn_out, now, l1_sessions>>

http_upload_files(max_sessions, lists, tables) ==
    /\ upload_files(max_sessions, lists, tables)
    /\ reply' = Returned("upload", Cardinality(DOMAIN objs) + 1)

http_upload_files_raises ==
    \E bad \in BadFiles :
       /\ upload_files_raises(bad)
       /\ reply' = HTTPException("upload", 0, 400, "Error parsing files")

http_start_processing(session_id, max_tasks) ==
    \/ /\ session_id \notin sessions
       /\ Answer(NotFound("start", session_id))
    \/ /\ session_id \in sessions
       /\ ~StartAllowed(objs[session_id])
       /\ Answer(HTTPException("start", session_id, 400, StartDetail(objs[session_id])))
    \/ /\ start_processing(session_id, max_tasks)
       /\ reply' = Returned("start", session_id)

ProgressResetsCounter(session_id) ==
    \/ /\ session_id \notin sessions
       /\ Answer(NotFound("progress", session_id))
    \/ /\ session_id \in sessions
       /\ reply' = [Returned("progress", session_id) EXCEPT
                       !.progress = get_progress(objs[session_id])]
       /\ objs' = [objs EXCEPT ![session_id].processed_rows = 0]
       /\ UNCHANGED <<sessions, tasks, classification_cache, classified, cache_table,
                      fn_in, fn_out, now, l1_sessions>>

http_get_progress(session_id) ==
    \/ /\ session_id \notin sessions
       /\ Answer(NotFound("progress", session_id))
    \/ /\ session_id \in sessions
       /\ Answer([Returned("progress", session_id) EXCEPT
                     !.progress = get_progress(objs[session_id])])

ResultsWhenAnyRows(session) == session.results # << >>

\* The gate of get_results and of download_results.
ResultsAllowed(session) == session.status = "completed"

http_get_results(session_id) ==
    \/ /\ session_id \notin sessions
       /\ Answer(NotFound("results", session_id))
    \/ /\ session_id \in sessions
       /\ ~ResultsAllowed(objs[session_id])
       /\ Answer(HTTPException("results", session_id, 400, "Processing not complete"))
    \/ /\ session_id \in sessions
       /\ ResultsAllowed(objs[session_id])
       /\ Answer([Returned("results", session_id) EXCEPT
                     !.results = objs[session_id].results])

\* The rows written to the CSV are the result rows, field by field.
http_download_results(session_id) ==
    \/ /\ session_id \notin sessions
       /\ Answer(NotFound("download", session_id))
    \/ /\ session_id \in sessions
       /\ ~ResultsAllowed(objs[session_id])
       /\ Answer(HTTPException("download", session_id, 400, "Processing not complete"))
    \/ /\ session_id \in sessions
       /\ ResultsAllowed(objs[session_id])
       /\ Answer([Returned("download", session_id) EXCEPT
                     !.results = objs[session_id].results])

\* GET /cache/stats.
http_get_cache_stats ==
    Answer([Returned("stats", 0) EXCEPT
               !.stats = [cached_classifications |->
                              Cardinality(DOMAIN classification_cache),
                          active_sessions |-> Cardinality(sessions)]])

http_delete_session(session_id) ==
    \/ /\ session_id \notin sessions
       /\ Answer(NotFound("delete", session_id))
    \/ /\ delete_session(session_id)
       /\ reply' = Returned("delete", session_id)

http_regenerate_results(session_id, max_tasks) ==
    \/ /\ session_id \notin sessions
       /\ Answer(NotFound("regenerate", session_id))
    \/ /\ session_id \in sessions
       /\ \E feedback \in Feedbacks :
            /\ ~RegenerateAllowed(objs[session_id], feedback)
            /\ Answer([HTTPException("regenerate", session_id, 400,
                                     RegenerateDetail(objs[session_id], feedback))
                          EXCEPT !.feedback = feedback])
    \/ /\ regenerate_results(session_id, max_tasks)
       /\ reply' = [Returned("regenerate", session_id) EXCEPT
                       !.feedback = tasks'[FreeSlot].feedback]

http_clear_cache ==
    /\ clear_cache
    /\ reply' = Returned("clear", 0)

\* A background segment answers no request.
Background(t, resps) ==
    /\ process_complaints(t, resps) \/ reprocess_with_feedback(t, resps)
    /\ reply' = NoReply

\* ------------------------------------------------- layer 1 (main.py)
\* The keys of Session.collected_data and the ones is_data_complete requires.
DataKeys ==
    {"industry", "business_description", "target_customers", "main_products_services",
     "common_pain_points", "specific_terminology"}

required_fields ==
    {"industry", "business_description", "target_customers", "main_products_services"}

\* Session.__init__.  collected is the set of keys of collected_data whose
\* value is not None; in_store tells whether the sessions dict still holds
\* the object.  A dataset is "None" or a text given as a sequence of pieces.
Session ==
    [in_store |-> TRUE,
     collected |-> {},
     generated_dataset |-> <<"None">>,
     dataset_iterations |-> << >>,
     feedback_history |-> << >>,
     current_iteration |-> 0]

is_data_complete(session) == required_fields \subseteq session.collected

\* What generate_content returns to layer 1: it raises, or the text is empty,
\* plain, or wrapped in a markdown code fence with or without the csv tag
\* (the three backquotes are written <fence>).
L1Responses ==
    [raise |-> <<"raise">>,
     empty |-> << >>,
     plain |-> <<"rows">>,
     csvfence |-> <<"intro", "<fence>csv", "rows", "<fence>", "outro">>,
     fence |-> <<"<fence>", "rows", "<fence>">>]

\* text.split(sep)[1] and text.split(sep)[0] for a text that contains sep.
RECURSIVE Before(_, _)
Before(text, sep) ==
    IF text = << >> \/ Head(text) = sep THEN << >>
    ELSE <<Head(text)>> \o Before(Tail(text), sep)

RECURSIVE After(_, _)
After(text, sep) ==
    IF text = << >> THEN << >>
    ELSE IF Head(text) = sep THEN Tail(text)
    ELSE After(Tail(text), sep)

Contains(text, sep) == \E j \in DOMAIN text : text[j] = sep

\* The clean-up of the response text in generate_dataset / regenerate_dataset.
CleanCsv(text) ==
    IF Contains(text, "<fence>csv")
    THEN Before(Before(After(text, "<fence>csv"), "<fence>csv"), "<fence>")
    ELSE IF Contains(text, "<fence>")
    THEN Before(After(text, "<fence>"), "<fence>")
    ELSE text

Truthy(dataset) == dataset # <<"None">> /\ dataset # << >>

\* Session.generate_dataset for a response that does not raise.
generate_dataset(session, response) ==
    IF ~is_data_complete(session) THEN session
    ELSE [session EXCEPT
             !.generated_dataset = CleanCsv(response),
             !.dataset_iterations =
                 Append(@, [iteration |-> session.current_iteration,
                            dataset |-> CleanCsv(response), feedback |-> <<"None">>])]

RecordFeedbackReplacing(session, feedback) ==
    [session EXCEPT
        !.feedback_history =
            <<[iteration |-> session.current_iteration, feedback |-> feedback]>>,
        !.current_iteration = @ + 1]

RecordFeedbackOnly(session, feedback) ==
    [session EXCEPT
        !.feedback_history =
            Append(@, [iteration |-> session.current_iteration, feedback |-> feedback])]

\* Session.regenerate_dataset up to the call of generate_content.
RecordFeedback(session, feedback) ==
    [session EXCEPT
        !.feedback_history =
            Append(@, [iteration |-> session.current_iteration, feedback |-> feedback]),
        !.current_iteration = @ + 1]

\* Session.regenerate_dataset; a raising response leaves what was assigned
\* before the call.
regenerate_dataset(session, feedback, response) ==
    IF ~is_data_complete(session) THEN session
    ELSE IF response = L1Responses.raise THEN RecordFeedback(session, feedback)
    ELSE LET Body(s) ==
                 [s EXCEPT
                     !.generated_dataset = CleanCsv(response),
                     !.dataset_iterations =
                         Append(@, [iteration |-> s.current_iteration,
                                    dataset |-> CleanCsv(response),
                                    feedback |-> feedback])]
         IN  Body(RecordFeedback(session, feedback))

L1Stored(session_id) ==
    session_id \in DOMAIN l1_sessions /\ l1_sessions[session_id].in_store

L1Frame ==
    UNCHANGED <<sessions, objs, tasks, classification_cache, classified, cache_table,
                fn_in, fn_out, now>>

\* POST /chat: get_or_create_session, then process_message with the keys the
\* answer's extracted_data gives a value that is not None.
l1_chat(session_id, max_sessions, extracted) ==
    /\ IF L1Stored(session_id)
       THEN /\ l1_sessions' = [l1_sessions EXCEPT ![session_id].collected = @ \cup extracted]
            /\ reply' = Returned("l1_chat", session_id)
       ELSE LET new_id == Cardinality(DOMAIN l1_sessions) + 1
            IN  /\ Cardinality(DOMAIN l1_sessions) < max_sessions
                /\ l1_sessions' =
                       (new_id :> [Session EXCEPT !.collected = extracted]) @@ l1_sessions
                /\ reply' = Returned("l1_chat", new_id)
    /\ L1Frame

\* POST /generate/{session_id}.
l1_generate_dataset(session_id, r, max_datasets) ==
    /\ L1Frame
    /\ IF ~L1Stored(session_id)
       THEN /\ reply' = NotFound("l1_generate", session_id)
            /\ UNCHANGED l1_sessions
       ELSE IF ~is_data_complete(l1_sessions[session_id])
       THEN /\ reply' = HTTPException("l1_generate", session_id, 400, "Not all collected")
            /\ UNCHANGED l1_sessions
       ELSE IF L1Responses[r] = L1Responses.raise
       THEN /\ reply' = HTTPException("l1_generate", session_id, 500, "raised")
            /\ UNCHANGED l1_sessions
       ELSE /\ Len(l1_sessions[session_id].dataset_iterations) < max_datasets
            /\ l1_sessions' = [l1_sessions EXCEPT
                   ![session_id] = generate_dataset(@, L1Responses[r])]
            /\ reply' = [Returned("l1_generate", session_id) EXCEPT
                   !.iteration = l1_sessions'[session_id].current_iteration]

\* POST /regenerate/{session_id}.
l1_regenerate_dataset(session_id, feedback, r, max_regens, max_datasets) ==
    /\ L1Frame
    /\ IF ~L1Stored(session_id)
       THEN /\ reply' = NotFound("l1_regenerate", session_id)
            /\ UNCHANGED l1_sessions
       ELSE IF ~Truthy(l1_sessions[session_id].generated_dataset)
       THEN /\ reply' = [HTTPException("l1_regenerate", session_id, 400, "No dataset")
                           EXCEPT !.feedback = feedback]
            /\ UNCHANGED l1_sessions
       ELSE /\ l1_sessions[session_id].current_iteration < max_regens
            /\ Len(l1_sessions[session_id].dataset_iterations) < max_datasets
            /\ l1_sessions' = [l1_sessions EXCEPT
                   ![session_id] = regenerate_dataset(@, feedback, L1Responses[r])]
            /\ reply' = IF L1Responses[r] = L1Responses.raise
                        THEN [HTTPException("l1_regenerate", session_id, 500, "raised")
                                 EXCEPT !.feedback = feedback]
                        ELSE [Returned("l1_regenerate", session_id) EXCEPT
                                 !.feedback = feedback,
                                 !.iteration = l1_sessions'[session_id].current_iteration]

\* DELETE /session/{session_id}.
l1_delete_session(session_id) ==
    /\ L1Frame
    /\ IF ~L1Stored(session_id)
       THEN /\ reply' = NotFound("l1_delete", session_id)
            /\ UNCHANGED l1_sessions
       ELSE /\ l1_sessions' = [l1_sessions EXCEPT ![session_id].in_store = FALSE]
            /\ reply' = Returned("l1_delete", session_id)

\* datetime.now() moves on between two steps.
tick(max_time) ==
    /\ now < max_time
    /\ now' = now + 1
    /\ reply' = NoReply
    /\ UNCHANGED <<sessions, objs, tasks, classification_cache, classified, cache_table,
                   fn_in, fn_out, l1_sessions>>

\* ---------------------------------------------------------- specification
TaskSlots == 1..Max(Max(MaxTasks, ShareTasks), Max(Max(ApiTasks, LiveTasks), FbTasks))

Init ==
    /\ sessions = {}
    /\ objs = EmptyMap
    /\ tasks = [t \in TaskSlots |-> NoTask]
    /\ classification_cache = EmptyMap
    /\ classified = EmptyMap
    /\ cache_table = EmptyMap
    /\ fn_in = << >>
    /\ fn_out = << >>
    /\ now = 0
    /\ reply = NoReply
    /\ l1_sessions = EmptyMap

\* One session under every kind of upstream answer.
Next ==
    \/ upload_files(MaxSessions, ComplaintLists, RiskTables) /\ UNCHANGED reply
    \/ \E session_id \in 1..MaxSessions :
          start_processing(session_id, MaxTasks) /\ UNCHANGED reply
    \/ \E session_id \in 1..MaxSessions :
          regenerate_results(session_id, MaxTasks) /\ UNCHANGED reply
    \/ \E session_id \in 1..MaxSessions : delete_session(session_id) /\ UNCHANGED reply
    \/ clear_cache /\ UNCHANGED reply
    \/ \E t \in TaskSlots : process_complaints(t, RespNames) /\ UNCHANGED reply
    \/ \E t \in TaskSlots : reprocess_with_feedback(t, RespNames) /\ UNCHANGED reply

Spec == Init /\ [][Next]_vars

\* Sessions that share the cache.
NextShare ==
    \/ upload_files(ShareSessions, ShareLists, ShareTables) /\ UNCHANGED reply
    \/ \E session_id \in 1..ShareSessions :
          start_processing(session_id, ShareTasks) /\ UNCHANGED reply
    \/ \E session_id \in 1..ShareSessions :
          regenerate_results(session_id, ShareTasks) /\ UNCHANGED reply
    \/ clear_cache /\ UNCHANGED reply
    \/ \E t \in TaskSlots : process_complaints(t, ShareResps) /\ UNCHANGED reply
    \/ \E t \in TaskSlots : reprocess_with_feedback(t, ShareResps) /\ UNCHANGED reply

SpecShare == Init /\ [][NextShare]_vars

\* The requests with their responses: one session, and an id no upload ever
\* returned.
ApiLists == {[j \in 1..n |-> FeedLine(j)] : n \in {0, ApiLen}}

ApiResps == {"raise", "good"}

ApiIds == 1..(ApiSessions + 1)

NextApi ==
    \/ http_upload_files(ApiSessions, ApiLists, RiskTables)
    \/ \E session_id \in ApiIds : http_start_processing(session_id, ApiTasks)
    \/ \E session_id \in ApiIds : http_get_progress(session_id)
    \/ \E session_id \in ApiIds : http_get_results(session_id)
    \/ \E session_id \in ApiIds : http_download_results(session_id)
    \/ \E session_id \in ApiIds : http_delete_session(session_id)
    \/ \E session_id \in ApiIds : http_regenerate_results(session_id, ApiTasks)
    \/ http_clear_cache
    \/ http_get_cache_stats
    \/ http_upload_files_raises
    \/ \E t \in TaskSlots : Background(t, ApiResps)

SpecApi == Init /\ [][NextApi]_vars

\* A run in flight next to every request a client can send to its session,
\* with the scheduling of the event loop: a background run that can take its
\* next segment (its sleep of 0.1 s is over, or it was just queued) is
\* eventually given the loop.
LiveLists == {[j \in 1..LiveLen |-> FeedLine(j)]}

LiveResps == {"raise", "good"}

LiveIds == 1..LiveSessions

NextLive ==
    \/ http_upload_files(LiveSessions, LiveLists, {TA})
    \/ \E session_id \in LiveIds : http_start_processing(session_id, LiveTasks)
    \/ \E session_id \in LiveIds : http_get_progress(session_id)
    \/ \E session_id \in LiveIds : http_get_results(session_id)
    \/ \E session_id \in LiveIds : http_download_results(session_id)
    \/ \E session_id \in LiveIds : http_delete_session(session_id)
    \/ \E session_id \in LiveIds : http_regenerate_results(session_id, LiveTasks)
    \/ http_clear_cache
    \/ \E t \in TaskSlots : Background(t, LiveResps)

SpecLive ==
    Init /\ [][NextLive]_vars /\ \A t \in 1..LiveTasks : WF_vars(Background(t, LiveResps))

\* Feedback runs of one session next to the runs of another one.
FbLists == {[j \in 1..n |-> FeedLine(j)] : n \in 1..FbLen}

FbTables == {TA, TB}

FbResps == {"malformed", "good"}

NextFb ==
    \/ upload_files(FbSessions, FbLists, FbTables) /\ UNCHANGED reply
    \/ \E session_id \in 1..FbSessions :
          start_processing(session_id, FbTasks) /\ UNCHANGED reply
    \/ \E session_id \in 1..FbSessions :
          regenerate_results(session_id, FbTasks) /\ UNCHANGED reply
    \/ clear_cache /\ UNCHANGED reply
    \/ \E t \in TaskSlots : process_complaints(t, FbResps) /\ UNCHANGED reply
    \/ \E t \in TaskSlots : reprocess_with_feedback(t, FbResps) /\ UNCHANGED reply

SpecFb == Init /\ [][NextFb]_vars

\* The runs of one session under a clock, and the progress queries.
ClockLists == {<<Texts[1]>>}

ClockResps == {"raise", "good"}

NextClock ==
    \/ http_upload_files(ClockSessions, ClockLists, {TA})
    \/ \E session_id \in 1..ClockSessions : http_start_processing(session_id, ClockTasks)
    \/ \E session_id \in 1..ClockSessions : http_regenerate_results(session_id, ClockTasks)
    \/ \E session_id \in 1..ClockSessions : http_get_progress(session_id)
    \/ \E t \in TaskSlots : Background(t, ClockResps)
    \/ tick(ClockMax)

SpecClock == Init /\ [][NextClock]_vars

\* Layer 1: one dataset session, and an id that names no session.
L1Ids == 1..(L1Sessions + 1)

L1Feedbacks == {<< >>, <<"R", "2">>}

L1Extracts == {{}, {"industry"}, {"common_pain_points"}, required_fields}

NextL1 ==
    \/ \E session_id \in L1Ids, extracted \in L1Extracts :
          l1_chat(session_id, L1Sessions, extracted)
    \/ \E session_id \in L1Ids, r \in DOMAIN L1Responses :
          l1_generate_dataset(session_id, r, L1Datasets)
    \/ \E session_id \in L1Ids, feedback \in L1Feedbacks, r \in DOMAIN L1Responses :
          l1_regenerate_dataset(session_id, feedback, r, L1Regens, L1Datasets)
    \/ \E session_id \in L1Ids : l1_delete_session(session_id)

SpecL1 == Init /\ [][NextL1]_vars

\* Pure functions applied to arguments drawn by the initial state.
ScoreRange == 1..5

PriorityInputs ==
    {[op |-> "priority", args |-> <<a, b, c, d>>] :
        a \in ScoreRange, b \in ScoreRange, c \in ScoreRange, d \in ScoreRange}

FnInit ==
    /\ sessions = {}
    /\ objs = EmptyMap
    /\ tasks = [t \in TaskSlots |-> NoTask]
    /\ classification_cache = EmptyMap
    /\ classified = EmptyMap
    /\ cache_table = EmptyMap
    /\ fn_in \in PriorityInputs
    /\ fn_out = << >>
    /\ now = 0
    /\ reply = NoReply
    /\ l1_sessions = EmptyMap

ApplyPriority ==
    /\ fn_in.op = "priority"
    /\ fn_out = << >>
    /\ fn_out' = calculate_priority(fn_in.args[1], fn_in.args[2], fn_in.args[3], fn_in.args[4])
    /\ UNCHANGED <<sessions, objs, tasks, classification_cache, classified, cache_table, fn_in,
                   now, l1_sessions>>

FnNext ==
    \/ ApplyPriority /\ UNCHANGED reply

FnSpec == FnInit /\ [][FnNext]_vars

\* ------------------------------------------------------------------ claims
SessionTasks(sid) == {t \in UsedTasks : tasks[t].sid = sid}

\* C1: at most one processing run (initial or feedback-driven) of a session
\* is in flight at any time.  Stated for runs that have executed their first
\* segment and have not ended.
C1_OneRunInFlight ==
    \A sid \in DOMAIN objs :
        Cardinality({t \in SessionTasks(sid) : tasks[t].pc = "sleep"}) <= 1

\* C2: once a start-processing request of a session is accepted, no further
\* start-processing request of that session is accepted before that run has
\* reached completed or error.
C2_SecondStartRejected ==
    [][\A sid \in DOMAIN objs :
          (\E t \in SessionTasks(sid) : tasks[t].kind = "process" /\ InFlight(t))
          => ~(\E u \in TaskSlots : /\ tasks[u].kind = "unused"
                                    /\ tasks'[u].kind = "process"
                                    /\ tasks'[u].sid = sid)]_vars

\* C3: whenever a session's status is completed, processed_rows equals
\* total_rows.
C3_CompletedAllProcessed ==
    \A sid \in DOMAIN objs :
        objs[sid].status = "completed" => objs[sid].processed_rows = objs[sid].total_rows

\* C4: row i of the results carries complaint i, and a completed session has
\* exactly one row per complaint.
C4_ResultsAligned ==
    \A sid \in DOMAIN objs :
        LET o == objs[sid]
        IN  /\ \A i \in DOMAIN o.results :
                 i <= Len(o.complaints) /\ o.results[i].complaint = o.complaints[i]
            /\ o.status = "completed" => Len(o.results) = Len(o.complaints)

\* C5: a run whose upstream call raises on the complaint at index k ends with
\* status error, exactly k rows retained and processed_rows = k.  Stated for
\* a run that never overlapped another run of its session, a first run or a
\* re-run.
C5_PartialFailureRetention ==
    [][\A t \in TaskSlots :
          (/\ InFlight(t)
           /\ tasks[t].solo
           /\ tasks'[t].pc = "failed"
           /\ tasks'[t].resp = "raise")
          => LET o == objs'[tasks[t].sid]
             IN  /\ o.status = "error"
                 /\ Len(o.results) = tasks[t].i
                 /\ o.processed_rows = tasks[t].i]_vars

\* The answers that cannot be parsed into the expected schema: no JSON, a
\* JSON object lacking expected keys, non-numeric scores.
Unparseable == {"malformed", "strscore", "nullscore", "noscore", "nocode"}

\* C6: an answer that cannot be parsed into the expected schema is classified
\* as the fixed fallback, the run goes on, and the session does not enter the
\* error state.
C6_UnparseableFallsBack ==
    [][\A t \in TaskSlots :
          (tasks'[t] # tasks[t] /\ tasks'[t].resp \in Unparseable)
          => LET o == objs'[tasks[t].sid]
             IN  /\ tasks'[t].pc = "sleep"
                 /\ o.status # "error"
                 /\ o.results # << >>
                 /\ o.results[Len(o.results)] =
                        BuildRow(o.complaints[tasks'[t].i], FALLBACK)]_vars

\* C7: every score of every result row and of every cache entry is an
\* integer in [1,5], so calculate_priority never divides by zero.
ScoresInRange(d) == \A j \in DOMAIN ScoreKeys : d[ScoreKeys[j]] \in ScoreRange

C7_ScoresClamped ==
    /\ \A sid \in DOMAIN objs :
         \A i \in DOMAIN objs[sid].results : ScoresInRange(objs[sid].results[i])
    /\ \A k \in DOMAIN classification_cache : ScoresInRange(classification_cache[k])

\* An answer 9, -1, 3, 3 is held as 5, 1, 3, 3 in a row and in the cache.
C7_Witness ==
    /\ \E sid \in DOMAIN objs : \E i \in DOMAIN objs[sid].results :
         LET row == objs[sid].results[i]
         IN  /\ row.impact_score = 5 /\ row.urgency_score = 1
             /\ row.frequency_score = 3 /\ row.controllability_score = 3
    /\ \E k \in DOMAIN classification_cache :
         /\ classification_cache[k].impact_score = 5
         /\ classification_cache[k].urgency_score = 1

\* C8: on [1,5]^4 the level is P1 iff i*u*f >= 60*c, P2 iff the quotient is
\* in [40,60), P3 iff in [20,40), P4 iff below 20.
C8_PriorityBands ==
    (fn_in.op = "priority" /\ fn_out # << >>) =>
        LET n == fn_in.args[1] * fn_in.args[2] * fn_in.args[3]
            c == fn_in.args[4]
            level == fn_out[2]
        IN  /\ level \in {"P1 - Critical", "P2 - High", "P3 - Medium", "P4 - Low"}
            /\ level = "P1 - Critical" <=> n >= 60 * c
            /\ level = "P2 - High" <=> (40 * c <= n /\ n < 60 * c)
            /\ level = "P3 - Medium" <=> (20 * c <= n /\ n < 40 * c)
            /\ level = "P4 - Low" <=> n < 20 * c

\* The score of exactly 60 has been put in P1.
C8_Witness ==
    /\ fn_in.op = "priority"
    /\ fn_in.args = <<5, 4, 3, 1>>
    /\ fn_out = <<6000, "P1 - Critical">>

\* The fingerprint of the complaint that run t classifies in its next segment.
HasNext(t) == InFlight(t) /\ tasks[t].i < Len(objs[tasks[t].sid].complaints)

NextKey(t) ==
    get_cache_key(objs[tasks[t].sid].risk_table,
                  objs[tasks[t].sid].complaints[tasks[t].i + 1])

\* Sessions whose risk tables are equal compute equal fingerprints for equal
\* complaint texts.
SameFingerprint ==
    \A s1 \in DOMAIN objs, s2 \in DOMAIN objs :
        TableEq(objs[s1].risk_table, objs[s2].risk_table) =>
            \A j \in DOMAIN Texts :
                get_cache_key(objs[s1].risk_table, Texts[j]) =
                get_cache_key(objs[s2].risk_table, Texts[j])

C10_FingerprintDependsOnTable ==
    /\ \A s1 \in DOMAIN objs, s2 \in DOMAIN objs :
         ~TableEq(objs[s1].risk_table, objs[s2].risk_table) =>
             \A j \in DOMAIN Texts :
                 get_cache_key(objs[s1].risk_table, Texts[j]) #
                 get_cache_key(objs[s2].risk_table, Texts[j])
    /\ \A k \in DOMAIN classification_cache :
         \A sid \in DOMAIN objs :
             \A j \in DOMAIN objs[sid].complaints :
                 get_cache_key(objs[sid].risk_table, objs[sid].complaints[j]) = k
                 => TableEq(cache_table[k], objs[sid].risk_table)

\* Two sessions with different tables have classified the same text, each by
\* its own call, and the cache holds an entry for each.
C10_Witness ==
    \E t \in UsedTasks, u \in UsedTasks :
        LET a == objs[tasks[t].sid]
            b == objs[tasks[u].sid]
        IN  /\ ~TableEq(a.risk_table, b.risk_table)
            /\ a.complaints[1] = b.complaints[1]
            /\ tasks[t].kind = "process" /\ tasks[u].kind = "process"
            /\ tasks[t].calls >= 1 /\ tasks[u].calls >= 1
            /\ a.results # << >> /\ b.results # << >>
            /\ get_cache_key(a.risk_table, a.complaints[1]) \in DOMAIN classification_cache
            /\ get_cache_key(b.risk_table, b.complaints[1]) \in DOMAIN classification_cache

\* C11: a fetch-results or export request for a stored session is rejected
\* (400, no rows in the response) whenever the status is pending, processing
\* or error, succeeds exactly when it is completed (returning the session's
\* rows), and changes no state.
C11_ResultsGated ==
    [][(reply'.op \in {"results", "download"} /\ reply'.session_id \in sessions)
       => LET session == objs[reply'.session_id]
          IN  /\ UNCHANGED svars
              /\ session.status \in {"pending", "processing", "error"}
                 => reply'.status_code = 400 /\ reply'.results = << >>
              /\ reply'.status_code = 200
                 => session.status = "completed" /\ reply'.results = session.results
              /\ reply'.status_code \in {200, 400}]_vars

\* An export is refused while a run is between two complaints and rows exist.
C11_Witness ==
    /\ reply.op = "download"
    /\ reply.status_code = 400
    /\ reply.session_id \in sessions
    /\ objs[reply.session_id].status = "processing"
    /\ objs[reply.session_id].results # << >>

\* C12: a start-processing request for a stored session with zero complaints
\* or with an empty risk table is rejected (400) with the detail of the
\* failed precondition, changes no state and starts no run; such a session
\* stays pending, with no run and no rows, for as long as it exists.
Unprocessable(session) == session.complaints = << >> \/ session.risk_table = << >>

C12_EmptyInputRejected ==
    [][/\ (/\ reply'.op = "start"
           /\ reply'.session_id \in sessions
           /\ Unprocessable(objs[reply'.session_id]))
          => /\ reply'.status_code = 400
             /\ reply'.detail = IF objs[reply'.session_id].complaints = << >>
                                THEN "No complaints to process"
                                ELSE "No risk table loaded"
             /\ UNCHANGED svars
       /\ \A sid \in DOMAIN objs' :
             Unprocessable(objs'[sid])
             => /\ objs'[sid].status = "pending"
                /\ objs'[sid].results = << >>
                /\ \A t \in TaskSlots : tasks'[t].sid # sid]_vars

\* A start request is refused for complaints uploaded with an empty risk table.
C12_Witness ==
    /\ reply.op = "start"
    /\ reply.status_code = 400
    /\ reply.detail = "No risk table loaded"
    /\ reply.session_id \in sessions
    /\ objs[reply.session_id].complaints # << >>

\* C13: a feedback request for a stored session is rejected (400) exactly
\* when the session has no result rows or the feedback text is empty or only
\* whitespace; a rejected request adds no run and leaves the store, the
\* session, its rows and the cache as they were; an accepted one adds one
\* feedback run carrying the text.
Blank(feedback) == \A j \in DOMAIN feedback : feedback[j] \in Whitespace

C13_FeedbackRejected ==
    [][(reply'.op = "regenerate" /\ reply'.session_id \in sessions)
       => LET session == objs[reply'.session_id]
              rejected == session.results = << >> \/ Blank(reply'.feedback)
          IN  /\ rejected => reply'.status_code = 400 /\ UNCHANGED svars
              /\ ~rejected
                 => /\ reply'.status_code = 200
                    /\ UNCHANGED <<sessions, objs, classification_cache>>
                    /\ \E t \in TaskSlots :
                         /\ tasks[t].kind = "unused"
                         /\ tasks'[t].kind = "reprocess"
                         /\ tasks'[t].sid = reply'.session_id
                         /\ tasks'[t].feedback = reply'.feedback]_vars

\* A whitespace-only feedback is refused for a session that has rows.
C13_Witness ==
    /\ reply.op = "regenerate"
    /\ reply.status_code = 400
    /\ reply.detail = "Please provide feedback"
    /\ reply.feedback # << >>
    /\ reply.session_id \in sessions
    /\ objs[reply.session_id].results # << >>

C15_FeedbackReplaces ==
    [][\A t \in TaskSlots :
          (tasks[t].kind = "reprocess" /\ tasks[t].pc # "done" /\ tasks'[t].pc = "done")
          => LET session == objs'[tasks[t].sid]
             IN  /\ Len(session.results) = Len(session.complaints)
                 /\ \A j \in DOMAIN session.results :
                       session.results[j].complaint = session.complaints[j]]_vars

\* C16: every row a feedback run appends comes from a call the run made for
\* that complaint, with the run's feedback text in the prompt: the step makes
\* one call, the row is built from that call's response, and the run has made
\* one call per complaint it has passed, whatever the cache held.
C16_FeedbackCallsLive ==
    [][\A t \in TaskSlots :
          (tasks[t].kind = "reprocess" /\ tasks'[t].i = tasks[t].i + 1)
          => LET session == objs'[tasks[t].sid]
                 complaint == session.complaints[tasks'[t].i]
             IN  /\ tasks'[t].calls = tasks[t].calls + 1
                 /\ tasks'[t].calls = tasks'[t].i
                 /\ tasks'[t].resp \in RespNames
                 /\ tasks'[t].prompt_fb = tasks[t].feedback
                 /\ ~Blank(tasks'[t].prompt_fb)
                 /\ session.results # << >>
                 /\ session.results[Len(session.results)] =
                        BuildRow(complaint, CallAndParse(Responses[tasks'[t].resp]).result)]_vars

\* A feedback run built its row from a call that fell back, although a run
\* of another session had stored an entry for the same fingerprint.
C16_Witness ==
    \E t, u \in UsedTasks :
        /\ tasks[t].kind = "reprocess" /\ tasks[t].i = 1 /\ tasks[t].resp = "malformed"
        /\ tasks[u].kind = "process" /\ tasks[u].i = 1 /\ tasks[u].resp = "good"
        /\ tasks[u].sid # tasks[t].sid
        /\ get_cache_key(objs[tasks[t].sid].risk_table, objs[tasks[t].sid].complaints[1])
             = get_cache_key(objs[tasks[u].sid].risk_table, objs[tasks[u].sid].complaints[1])
        /\ objs[tasks[t].sid].results # << >>
        /\ objs[tasks[t].sid].results[1].risk_code = "ER-03"
        /\ objs[tasks[u].sid].results # << >>
        /\ objs[tasks[u].sid].results[1].risk_code = "R1"

\* C17: a step of a feedback run removes from the cache only entries whose
\* fingerprint is that of one of the session's own complaints under the
\* session's risk table; every other entry is still there with the same
\* value after the step.
OwnKeys(session) ==
    {get_cache_key(session.risk_table, session.complaints[j]) : j \in DOMAIN session.complaints}

C17_FeedbackRemovesOwnOnly ==
    [][\A t \in TaskSlots :
          (tasks[t].kind = "reprocess" /\ tasks'[t] # tasks[t])
          => \A k \in DOMAIN classification_cache :
                k \notin OwnKeys(objs[tasks[t].sid])
                => /\ k \in DOMAIN classification_cache'
                   /\ classification_cache'[k] = classification_cache[k]]_vars

\* A feedback run has reclassified its complaint after the session's first
\* run had called the model for it; the cache holds no entry of the session
\* and still holds the entry of another session.
C17_Witness ==
    \E t, u \in UsedTasks :
        /\ tasks[t].kind = "reprocess" /\ tasks[t].i = 1
        /\ tasks[u].kind = "process" /\ tasks[u].sid = tasks[t].sid
        /\ tasks[u].pc = "done" /\ tasks[u].calls = 1
        /\ OwnKeys(objs[tasks[t].sid]) \cap DOMAIN classification_cache = {}
        /\ \E sid \in DOMAIN objs :
              /\ sid # tasks[t].sid
              /\ OwnKeys(objs[sid]) \cap DOMAIN classification_cache # {}

\* C18 as stated: an entry of the cache is still there, unchanged, after
\* every step that is not the clear-all request.
Stays(k) ==
    /\ k \in DOMAIN classification_cache'
    /\ classification_cache'[k] = classification_cache[k]

C18_OnlyClearRemoves ==
    [][\A k \in DOMAIN classification_cache : Stays(k) \/ reply'.op = "clear"]_vars

\* C18 amended: an entry of the cache is still there, unchanged, after every
\* step except the clear-all request and the iteration of a feedback run on
\* a complaint with that fingerprint.
Invalidates(t, k) ==
    /\ tasks[t].kind = "reprocess"
    /\ tasks'[t].calls = tasks[t].calls + 1
    /\ LET session == objs[tasks[t].sid]
       IN  /\ tasks[t].i < Len(session.complaints)
           /\ k = get_cache_key(session.risk_table, session.complaints[tasks[t].i + 1])

C18_ClearOrFeedbackRemoves ==
    [][\A k \in DOMAIN classification_cache :
          \/ Stays(k)
          \/ reply'.op = "clear"
          \/ \E t \in TaskSlots : Invalidates(t, k)]_vars

\* An entry is in the cache after the session that stored it was deleted.
C18_Witness ==
    /\ reply.op = "delete"
    /\ reply.status_code = 200
    /\ \E k \in DOMAIN classification_cache :
          k \in OwnKeys(objs[reply.session_id])
    /\ \E t \in UsedTasks : tasks[t].sid = reply.session_id /\ tasks[t].pc = "done"

\* C19: a delete request for a stored session succeeds and takes the id out
\* of the store; an id once taken out is never stored again; every
\* session-scoped request (start, progress, results, export, feedback,
\* delete) for an id that is not in the store fails with 404 and changes
\* neither the store nor the cache nor anything else.
SessionOps == {"start", "progress", "results", "download", "regenerate", "delete"}

C19_DeletedIsNotFound ==
    [][/\ (reply'.op \in SessionOps /\ reply'.session_id \notin sessions)
          => /\ reply'.status_code = 404
             /\ reply'.detail = "Session not found"
             /\ UNCHANGED svars
       /\ (reply'.op = "delete" /\ reply'.session_id \in sessions)
          => /\ reply'.status_code = 200
             /\ sessions' = sessions \ {reply'.session_id}
             /\ UNCHANGED classification_cache
       /\ \A sid \in DOMAIN objs : sid \notin sessions => sid \notin sessions']_vars

\* A feedback request names a session that was stored once and then deleted.
C19_Witness ==
    /\ reply.op = "regenerate"
    /\ reply.status_code = 404
    /\ reply.session_id \in DOMAIN objs
    /\ reply.session_id \notin sessions

\* C20: the elapsed_seconds a progress query reports is never negative, is
\* the time since the start of the run while the status is processing, and is
\* the length of the run once the status is completed or error.  Stated for
\* sessions whose runs never overlapped.
C20_ElapsedSeconds ==
    (/\ reply.op = "progress"
     /\ reply.status_code = 200
     /\ \A t \in SessionTasks(reply.session_id) : tasks[t].solo)
    => LET session == objs[reply.session_id]
           progress == reply.progress
       IN  /\ progress.elapsed_seconds >= 0
           /\ progress.status = "processing"
              => progress.elapsed_seconds = now - session.start_time
           /\ progress.status \in {"completed", "error"}
              => progress.elapsed_seconds = session.end_time - session.start_time

\* C21: a session's status is one of pending, processing, completed, error,
\* is pending at creation, and changes only from pending to processing, from
\* processing to completed or error, and from completed or error back to
\* processing.  The first segment of a run assigns processing before it
\* assigns anything else, so its step is read as two changes.
Statuses == {"pending", "processing", "completed", "error"}

StatusMove(from, to) ==
    \/ from = to
    \/ from = "pending" /\ to = "processing"
    \/ from = "processing" /\ to \in {"completed", "error"}
    \/ from \in {"completed", "error"} /\ to = "processing"

Starts(sid) == \E t \in TaskSlots : tasks[t].sid = sid /\ tasks[t].pc = "queued"
                                      /\ tasks'[t].pc # "queued"

C21_StatusMachine ==
    [][/\ \A sid \in DOMAIN objs' :
             /\ objs'[sid].status \in Statuses
             /\ sid \notin DOMAIN objs => objs'[sid].status = "pending"
       /\ \A sid \in DOMAIN objs :
             IF Starts(sid)
             THEN /\ StatusMove(objs[sid].status, "processing")
                  /\ StatusMove("processing", objs'[sid].status)
             ELSE StatusMove(objs[sid].status, objs'[sid].status)]_vars

\* C22: a starting run clears the results and resets the processed counter
\* to 0, so after every step of a run the processed counter of its session
\* equals the number of result rows, in particular after the step in which
\* the run started.  Stated for sessions whose runs never overlapped.
Acts(t) == tasks[t].kind # "unused" /\ tasks'[t] # tasks[t]

C22_CounterFollowsRows ==
    [][\A t \in TaskSlots :
          (/\ Acts(t)
           /\ \A u \in TaskSlots : tasks'[u].sid = tasks[t].sid => tasks'[u].solo)
          => objs'[tasks[t].sid].processed_rows
                = Len(objs'[tasks[t].sid].results)]_vars

\* C23: when the model call raises during a run, the run is aborted: the
\* step appends no row, sets status error with a non-empty error message and
\* an end timestamp; the run makes no further call and takes no further step;
\* a progress query on a session in error reports the stored message.
CallFails(t) == InFlight(t) /\ tasks'[t].pc = "failed" /\ tasks'[t].resp = "raise"

Terminal(t) == tasks[t].pc \in {"done", "failed"}

IsRequest == reply' # NoReply

C24_RunGoesOn ==
    /\ [][IsRequest => \A t \in TaskSlots :
                          /\ tasks'[t].kind # "unused" /\ tasks[t].kind # "unused"
                             => /\ tasks'[t].pc = tasks[t].pc
                                /\ tasks'[t].i = tasks[t].i
                                /\ tasks'[t].calls = tasks[t].calls]_vars
    /\ \A t \in 1..LiveTasks : InFlight(t) ~> Terminal(t)

\* A run in flight whose session was deleted after its first complaint.
C24_Witness ==
    \E t \in TaskSlots :
       /\ tasks[t].pc = "sleep" /\ tasks[t].i = 1 /\ tasks[t].calls = 1
       /\ tasks[t].sid \notin sessions
       /\ reply.op = "delete" /\ reply.status_code = 200

\* C25: the feedback log and the dataset history of a session are
\* append-only: every step leaves each of them a prefix of what it is
\* afterwards, and an accepted feedback submission adds exactly one entry,
\* carrying the submitted text, to the feedback log.
IsPrefix(s, t) == Len(s) <= Len(t) /\ SubSeq(t, 1, Len(s)) = s

EndsInError(t) == InFlight(t) /\ tasks'[t].pc = "failed"

C26_CacheNeverFailsRun ==
    [][\A t \in TaskSlots :
          /\ (EndsInError(t) /\ tasks'[t].solo)
             => tasks'[t].calls = tasks[t].calls + 1
          /\ (tasks[t].kind = "process" /\ tasks'[t].i = tasks[t].i + 1)
             => LET session == objs'[tasks[t].sid]
                    complaint == session.complaints[tasks'[t].i]
                    key == get_cache_key(session.risk_table, complaint)
                    row == session.results[Len(session.results)]
                IN  IF tasks'[t].calls = tasks[t].calls + 1
                    THEN row = BuildRow(complaint,
                                        CallAndParse(Responses[tasks'[t].resp]).result)
                    ELSE /\ key \in DOMAIN classification_cache
                         /\ row = BuildRow(complaint, classification_cache[key])]_vars

\* C27: in every state the priority score and level of every result row are
\* calculate_priority of the four scores of that row, and no cache entry has
\* a priority score or level.
RowPriority(row) ==
    calculate_priority(row.impact_score, row.urgency_score,
                       row.frequency_score, row.controllability_score)

C27_PriorityFromOwnScores ==
    /\ \A sid \in DOMAIN objs : \A j \in DOMAIN objs[sid].results :
          <<objs[sid].results[j].priority_score, objs[sid].results[j].priority_level>>
             = RowPriority(objs[sid].results[j])
    /\ \A key \in DOMAIN classification_cache :
          DOMAIN classification_cache[key] \cap {"priority_score", "priority_level"} = {}

\* A completed run of two complaints that made one call: one row is built
\* from the answer, the other from the cache entry, and neither is the fallback.
C27_Witness ==
    \E t \in TaskSlots :
       /\ tasks[t].pc = "done" /\ tasks[t].solo
       /\ tasks[t].i = 2 /\ tasks[t].calls = 1
       /\ Len(objs[tasks[t].sid].results) = 2
       /\ \A j \in 1..2 : objs[tasks[t].sid].results[j].risk_code # FALLBACK.risk_code
       /\ classification_cache # << >>

\* C28: a step that stores a new session stores it under an id no session
\* ever had, with status pending, total equal to the number of its
\* complaints, processed 0 and no results; every other session, the task
\* list and the cache are as before.
C28_UploadCreatesFresh ==
    [][\A sid \in DOMAIN objs' :
          sid \notin DOMAIN objs
          => /\ sid \notin sessions /\ sid \in sessions'
             /\ objs'[sid].status = "pending"
             /\ objs'[sid].total_rows = Len(objs'[sid].complaints)
             /\ objs'[sid].processed_rows = 0
             /\ objs'[sid].results = << >>
             /\ \A other \in DOMAIN objs :
                   /\ objs'[other] = objs[other]
                   /\ other \in sessions' <=> other \in sessions
             /\ sessions' = sessions \cup {sid}
             /\ classification_cache' = classification_cache
             /\ tasks' = tasks]_vars

\* A second session was uploaded after the first one completed a run that
\* filled the cache.
C28_Witness ==
    /\ DOMAIN objs = {1, 2}
    /\ objs[1].status = "completed" /\ objs[1].results # << >>
    /\ objs[2].status = "pending" /\ objs[2].total_rows = Len(objs[2].complaints)
    /\ objs[2].total_rows > 0
    /\ classification_cache # << >>
    /\ \A t \in TaskSlots : tasks[t].sid # 2

\* C29: a feedback run stores the result of each parseable call in the cache
\* under the fingerprint of the complaint: after every step in which a
\* feedback run appended a row built from a parseable answer, the cache holds
\* that result under the fingerprint of the complaint of that step.
C29_FeedbackStores ==
    [][\A t \in TaskSlots :
          (/\ tasks[t].kind = "reprocess"
           /\ tasks'[t].i = tasks[t].i + 1
           /\ CallAndParse(Responses[tasks'[t].resp]).parsed)
          => LET session == objs'[tasks[t].sid]
                 key == get_cache_key(session.risk_table,
                                      session.complaints[tasks'[t].i])
             IN  /\ key \in DOMAIN classification_cache'
                 /\ classification_cache'[key]
                       = CallAndParse(Responses[tasks'[t].resp]).result]_vars

\* C30: progress, results, export and cache-stats requests are read-only and
\* always answerable: in every state each of them can be answered for every
\* stored session, with a run in flight or not; progress and cache-stats
\* answer 200, results and export answer 200 when the status is completed and
\* 400 otherwise; none changes a session, a run or the cache.
ReadOps == {"progress", "results", "download", "stats"}

C30_ReadsAnswerAndKeep ==
    /\ [](/\ ENABLED http_get_cache_stats
          /\ \A sid \in sessions :
                /\ ENABLED http_get_progress(sid)
                /\ ENABLED http_get_results(sid)
                /\ ENABLED http_download_results(sid))
    /\ [][reply'.op \in ReadOps =>
             /\ UNCHANGED <<sessions, objs, tasks, classification_cache, now>>
             /\ reply'.op = "stats" =>
                   /\ reply'.status_code = 200
                   /\ reply'.stats.cached_classifications
                         = Cardinality(DOMAIN classification_cache)
                   /\ reply'.stats.active_sessions = Cardinality(sessions)
             /\ (reply'.op = "progress" /\ reply'.session_id \in sessions) =>
                   /\ reply'.status_code = 200
                   /\ reply'.progress = get_progress(objs[reply'.session_id])
             /\ (reply'.op \in {"results", "download"} /\ reply'.session_id \in sessions) =>
                   /\ reply'.status_code
                         = IF objs[reply'.session_id].status = "completed" THEN 200 ELSE 400
                   /\ reply'.status_code = 200 =>
                         reply'.results = objs[reply'.session_id].results]_vars

\* Cache statistics answered while a run is between two complaints.
C30_Witness ==
    /\ reply.op = "stats" /\ reply.status_code = 200
    /\ reply.stats.cached_classifications = 1
    /\ reply.stats.active_sessions = 1
    /\ \E t \in TaskSlots : tasks[t].pc = "sleep" /\ tasks[t].i = 1
                            /\ objs[tasks[t].sid].status = "processing"

\* C31: an accepted start-processing request classifies nothing and writes
\* nothing to the session: it only queues the run, which has made no call and
\* passed no complaint; the status changes only in a step of a run of the
\* session, so while its runs are queued a progress query reports the status
\* the session had before, never processing.
Queued(sid) ==
    /\ \E t \in TaskSlots : tasks[t].sid = sid /\ tasks[t].pc = "queued"
    /\ \A t \in TaskSlots : tasks[t].sid = sid => tasks[t].pc # "sleep"

C31_StartOnlyQueues ==
    [][/\ (reply'.op = "start" /\ reply'.status_code = 200)
          => /\ objs' = objs
             /\ classification_cache' = classification_cache
             /\ \E t \in TaskSlots :
                   /\ tasks[t].kind = "unused"
                   /\ tasks'[t].kind = "process" /\ tasks'[t].sid = reply'.session_id
                   /\ tasks'[t].pc = "queued"
                   /\ tasks'[t].i = 0 /\ tasks'[t].calls = 0
       /\ \A sid \in DOMAIN objs :
             (\A t \in TaskSlots : tasks[t].sid = sid => tasks'[t].pc = tasks[t].pc)
             => objs'[sid].status = objs[sid].status
       /\ (/\ reply'.op = "progress" /\ reply'.status_code = 200
           /\ Queued(reply'.session_id))
          => /\ reply'.progress.status = objs[reply'.session_id].status
             /\ reply'.progress.status # "processing"]_vars

\* A progress query between the acceptance of the first start request and
\* the first step of its run still reports pending.
C31_Witness ==
    /\ reply.op = "progress" /\ reply.status_code = 200
    /\ reply.progress.status = "pending"
    /\ \E t \in TaskSlots : /\ tasks[t].sid = reply.session_id
                            /\ tasks[t].kind = "process" /\ tasks[t].pc = "queued"

\* C32: with model calls that return or raise and a fairly scheduled
\* background task, a session whose status is processing eventually has
\* status completed or error.
Processing(sid) == sid \in DOMAIN objs /\ objs[sid].status = "processing"

Ended(sid) == sid \in DOMAIN objs /\ objs[sid].status \in {"completed", "error"}

C32_ProcessingEnds == \A sid \in LiveIds : Processing(sid) ~> Ended(sid)

\* A run is between its first and its second complaint.
C32_Witness ==
    \E t \in TaskSlots :
       /\ tasks[t].pc = "sleep" /\ tasks[t].i = 1
       /\ Processing(tasks[t].sid)
       /\ Len(objs[tasks[t].sid].complaints) = 2

\* C33: in every state a session has at most as many result rows as
\* complaints, and its processed counter is between 0 and that total.
C33_RowsWithinTotal ==
    \A sid \in DOMAIN objs :
       /\ Len(objs[sid].results) <= objs[sid].total_rows
       /\ objs[sid].total_rows = Len(objs[sid].complaints)
       /\ objs[sid].processed_rows \in 0..objs[sid].total_rows

\* C34: every entry of the classification cache is a complete classification
\* result: it has a risk code, a risk description and the four scores, each
\* score an integer from 1 to 5.
ScoreKeySet == {ScoreKeys[n] : n \in DOMAIN ScoreKeys}

ResultKeys == {"risk_code", "risk_description"} \cup ScoreKeySet

C34_CacheEntriesComplete ==
    \A key \in DOMAIN classification_cache :
       /\ ResultKeys \subseteq DOMAIN classification_cache[key]
       /\ \A k \in ScoreKeySet \cap DOMAIN classification_cache[key] :
             classification_cache[key][k] \in 1..5

\* C35: the fallback result of a parse failure is never stored: after a step
\* in which a run called the model and fell back, the cache has no entry under
\* the fingerprint of that complaint, and a run whose next complaint has no
\* entry under its fingerprint calls the model in its next step.
FellBack(t) ==
    /\ tasks'[t].i = tasks[t].i + 1
    /\ tasks'[t].calls = tasks[t].calls + 1
    /\ ~CallAndParse(Responses[tasks'[t].resp]).parsed

C35_FallbackNotCached ==
    [][\A t \in TaskSlots :
          /\ (HasNext(t) /\ FellBack(t)) => NextKey(t) \notin DOMAIN classification_cache'
          /\ (/\ HasNext(t) /\ tasks'[t].pc # "queued"
              /\ (tasks'[t].pc # tasks[t].pc \/ tasks'[t].i # tasks[t].i)
              /\ NextKey(t) \notin DOMAIN classification_cache)
             => tasks'[t].calls = tasks[t].calls + 1]_vars

\* A complaint whose first classification fell back is classified by a call
\* again in a later run of the session, and the cache is still empty.
C35_Witness ==
    \E t, u \in TaskSlots :
       /\ t # u /\ tasks[t].sid = tasks[u].sid
       /\ tasks[t].solo /\ tasks[u].solo
       /\ tasks[t].kind = "process" /\ tasks[u].kind = "process"
       /\ tasks[t].pc = "done" /\ tasks[t].calls = 1
       /\ Len(objs[tasks[t].sid].complaints) = 1
       /\ tasks[u].pc = "sleep" /\ tasks[u].calls = 1 /\ tasks[u].resp = "malformed"
       /\ classification_cache = << >>

\* C36: in every state in which a session has status completed, its error
\* message is empty (None), and so is the one a progress query reports.
\* Stated for sessions whose runs never overlapped.
C36_CompletedHasNoError ==
    \A sid \in DOMAIN objs :
       (/\ objs[sid].status = "completed"
        /\ \A t \in TaskSlots : tasks[t].sid = sid => tasks[t].solo)
       => /\ objs[sid].error_message = "none"
          /\ get_progress(objs[sid]).error_message = "none"

\* C37: a run started on a completed session whose rows are still backed by
\* the cache (each row is the one built from the entry under the fingerprint
\* of its complaint, none is the fallback) makes no call, ends completed and
\* leaves the result sequence it found.  A run of one complaint appends its
\* only row in its first step, where the earlier sequence is still at hand;
\* for every later row the step is checked to make no call and to build the
\* row from the entry.
Backed(session, j) ==
    LET key == get_cache_key(session.risk_table, session.complaints[j])
    IN  /\ j \in DOMAIN session.results
        /\ session.results[j].risk_code # FALLBACK.risk_code
        /\ key \in DOMAIN classification_cache
        /\ RowExc(classification_cache[key]) = "none"
        /\ session.results[j] = BuildRow(session.complaints[j], classification_cache[key])

Rerun(t) ==
    /\ tasks[t].kind = "process" /\ tasks[t].solo /\ tasks'[t].solo
    /\ \E u \in TaskSlots : u # t /\ tasks[u].sid = tasks[t].sid /\ tasks[u].pc = "done"

C37_RerunIdempotent ==
    [][\A t \in TaskSlots :
          LET old == objs[tasks[t].sid]
              new == objs'[tasks[t].sid]
          IN  /\ (/\ Rerun(t) /\ tasks[t].pc = "queued" /\ tasks'[t].pc # "queued"
                  /\ old.status = "completed"
                  /\ \A j \in DOMAIN old.complaints : Backed(old, j))
                 => /\ tasks'[t].pc = "sleep" /\ tasks'[t].calls = 0
                    /\ new.results = SubSeq(old.results, 1, 1)
                    /\ classification_cache' = classification_cache
              /\ (/\ Rerun(t) /\ tasks[t].pc = "sleep" /\ HasNext(t)
                  /\ tasks'[t].pc # tasks[t].pc \/ tasks'[t].i # tasks[t].i
                  /\ NextKey(t) \in DOMAIN classification_cache
                  /\ RowExc(classification_cache[NextKey(t)]) = "none")
                 => /\ tasks'[t].calls = tasks[t].calls
                    /\ new.results =
                          Append(old.results,
                                 BuildRow(old.complaints[tasks[t].i + 1],
                                          classification_cache[NextKey(t)]))
              /\ (/\ Rerun(t) /\ tasks[t].pc = "sleep" /\ ~HasNext(t)
                  /\ tasks'[t].pc # tasks[t].pc)
                 => /\ tasks'[t].pc = "done" /\ tasks'[t].calls = tasks[t].calls
                    /\ new.status = "completed"
                    /\ new.results = old.results]_vars

\* The second run of a session has completed without a call, after a first
\* run that made one.
C37_Witness ==
    \E t, u \in TaskSlots :
       /\ t # u /\ tasks[t].sid = tasks[u].sid
       /\ tasks[t].kind = "process" /\ tasks[u].kind = "process"
       /\ tasks[t].solo /\ tasks[u].solo
       /\ tasks[u].pc = "done" /\ tasks[u].calls = 1
       /\ tasks[t].pc = "done" /\ tasks[t].calls = 0 /\ tasks[t].i = 1
       /\ objs[tasks[t].sid].status = "completed"
       /\ Backed(objs[tasks[t].sid], 1)

\* C38: on [1,5]^4 the score is the quotient impact*urgency*frequency /
\* controllability rounded to the nearest hundredth, it lies between 0.2 and
\* 125, and the level computed from it is the level of the exact quotient.
ExactLevel(n, c) ==
    IF n >= 60 * c THEN "P1 - Critical"
    ELSE IF n >= 40 * c THEN "P2 - High"
    ELSE IF n >= 20 * c THEN "P3 - Medium"
    ELSE "P4 - Low"

C38_RoundingKeepsBand ==
    (fn_in.op = "priority" /\ fn_out # << >>) =>
        LET n == fn_in.args[1] * fn_in.args[2] * fn_in.args[3]
            c == fn_in.args[4]
            err == fn_out[1] * c - 100 * n
        IN  /\ 2 * err <= c /\ 2 * err >= 0 - c
            /\ fn_out[1] >= 20 /\ fn_out[1] <= 12500
            /\ fn_out[2] = LevelOf(fn_out[1])
            /\ fn_out[2] = ExactLevel(n, c)

\* 2/3 has been rounded up to 0.67.
C38_Witness ==
    /\ fn_in.op = "priority"
    /\ fn_in.args = <<2, 1, 1, 3>>
    /\ fn_out = <<67, "P4 - Low">>

\* C39: an upload that answers 400 stores no session: the session store,
\* the session objects, the runs and the cache are as before the request, so
\* no id resolves that did not resolve before.
C39_FailedUploadStoresNothing ==
    [][(reply'.op = "upload" /\ reply'.status_code # 200)
       => /\ reply'.status_code = 400
          /\ sessions' = sessions
          /\ objs' = objs
          /\ tasks' = tasks
          /\ classification_cache' = classification_cache]_vars

\* A failed upload next to a stored session whose run has filled the cache.
C39_Witness ==
    /\ reply.op = "upload" /\ reply.status_code = 400
    /\ sessions = {1}
    /\ objs[1].status = "completed"
    /\ classification_cache # << >>

\* C40: a regenerate request of the dataset session whose model call raises
\* leaves the session as it was (iteration counter, feedback history, dataset
\* history, current dataset), so the iteration counter of a session is always
\* the iteration number of its latest recorded dataset.
C40_FailedRegenerateAtomic ==
    [][/\ (reply'.op = "l1_regenerate" /\ reply'.status_code = 500)
          => l1_sessions'[reply'.session_id] = l1_sessions[reply'.session_id]
       /\ \A sid \in DOMAIN l1_sessions' :
             LET s == l1_sessions'[sid]
             IN  s.dataset_iterations # << >>
                 => s.current_iteration
                       = s.dataset_iterations[Len(s.dataset_iterations)].iteration]_vars

=============================================================================
